---- MODULE Spec2Model ----
(***************************************************************************)
(* Model of nicolive_dl.NicoLiveDL: the availability check run by          *)
(* get_info, and the orchestration of _download (control-channel session,  *)
(* optional comment capture, ffmpeg sink).                                  *)
(*                                                                         *)
(* nicolive_ws.py (NicoLiveWS, NicoLiveCommentWS) is imported by           *)
(* nicolive_dl.py but is not among the source files; the WS_* and CWS_*    *)
(* definitions follow sections 4.3 and 4.4 of the specification.           *)
(***************************************************************************)
EXTENDS Integers, Sequences, FiniteSets, TLC

\* ------------------------------------------------------------------ bounds
MaxTrialEvents == 2     \* longest operation-events list served
MaxWsEvents == 2        \* inbound control-channel messages per session
MaxComments == 1        \* inbound comment events per run
MaxCloses == 2          \* calls of close() on one session

\* ------------------------------------------------------------ value sets
NoValue == "None"
LIVE_URL_PREFIX == <<"https://live.nicovideo.jp/watch/">>
BareId == <<"lv1">>
LvidArgs == {BareId, LIVE_URL_PREFIX \o BareId}
ProgramId == BareId
EventTypes == {"trialWatchState", "other"}
TrialEvent == [type : EventTypes, enabled : BOOLEAN]
EventLists == UNION {[1..n -> TrialEvent] : n \in 0..MaxTrialEvents}
Reasons == {"[]", "[notLogin]", "[noTimeshiftProgram]"}
Answers == {"y", "Y", "n", "N", "x"}
Rooms == {"room1"}
Addrs == {"uri1", "uri2"}
ReturnCodes == {0, 1}
DefaultOutput == <<"{title}", "-", "{lvid}", ".ts">>
SuffixTokens == {".ts", ".jsonl"}
OutputTemplates ==
    {DefaultOutput, <<"{title}", "-", "{lvid}", ".jsonl">>, <<"{title}">>,
     <<"{lvid}", ".ts">>}
Titles == {<<"title">>, <<"title", ".jsonl">>}

\* Page served for the live id: an HTTP error, a page without the
\* #embedded-data tag, or a page carrying the decoded data-props; the
\* platform lists rejection reasons only for a program it rejects.
PageResponses ==
    {p \in [kind : {"httpError", "noTag", "ok"}, canWatch : BOOLEAN,
            rejectedReasons : Reasons, isTrialWatchTarget : BOOLEAN] :
        /\ p.kind # "ok" => (p.canWatch /\ ~p.isTrialWatchTarget)
        /\ p.canWatch => p.rejectedReasons = "[]"}

\* Response of the operation/events endpoint.
EventsResponses ==
    {r \in [ok : BOOLEAN, data : EventLists] : ~r.ok => r.data = <<>>}

VARIABLES
    lvid_arg,        \* argument lvid of download
    output,          \* argument output of download (the name template)
    save_comments,   \* argument save_comments of download
    path_exists,     \* output_path.exists() at line 55
    page,            \* what the platform serves for the live page
    title,           \* sanitize(program.title) of that page
    events_resp,     \* what the platform serves for operation/events
    pc,              \* position of _download
    exc,             \* exception that left download ("none" if none)
    exc_reason,      \* reason formatted into LiveUnavailableException
    lvid,            \* local lvid after prefix stripping
    fetches,         \* HTTP GETs performed, in order
    trialInfo,       \* availability returned by get_tiralWatch_info
    warned,          \* the trial-watch warning was printed
    answer,          \* last answer to the overwrite prompt, lower-cased
    output_path,     \* local output_path of _download (its file name)
    comment_output_path, \* local comment_output_path of _download
    room_event,      \* local room_event of _download
    stream_uri,      \* local stream_uri of _download
    connState,       \* NicoLiveWS: none/connecting/open/closed/cancelled
    roomHandle,      \* NicoLiveWS: first room event observed
    streamAddr,      \* NicoLiveWS: first stream event observed
    waiters,         \* NicoLiveWS: the room and stream waiters
    arrival,         \* NicoLiveWS: milestones in the order first observed
    lastStream,      \* address carried by the latest stream event
    wsEvents,        \* inbound control-channel messages so far
    closeCalls,      \* calls of nlws.close()
    commentState,    \* NicoLiveCommentWS: none/connecting/open/failed/cancelled
    commentRoom,     \* room the comment subchannel was built with
    commentLines,    \* records appended to the comment log
    sinkState,       \* ffmpeg: none/running/exited
    sinkInput,       \* the -i argument ffmpeg was launched with
    sinkRc,          \* ffmpeg's return code
    launches         \* number of ffmpeg launches

argVars == <<lvid_arg, output, save_comments, path_exists, page, title,
            events_resp>>
pathVars == <<output_path, comment_output_path>>
infoVars == <<lvid, fetches, trialInfo, warned, exc_reason>>
wsVars == <<connState, roomHandle, streamAddr, waiters, wsEvents, closeCalls>>
commentVars == <<commentState, commentRoom, commentLines>>
sinkVars == <<sinkState, sinkInput, sinkRc, launches>>
vars == <<argVars, pathVars, infoVars, wsVars, commentVars, sinkVars,
          pc, exc, answer, arrival, lastStream, room_event, stream_uri>>

\* ------------------------------------------------------- pure functions
\* startswith that accepts only the prefix itself
startswith_Equal(s, p) == s = p

\* str.startswith (line 49)
startswith(s, p) == Len(s) >= Len(p) /\ SubSeq(s, 1, Len(p)) = p

\* output.format(title=title, lvid=lvid) on a template of name tokens
RECURSIVE format(_, _, _)
format(tpl, t, id) ==
    IF tpl = <<>> THEN <<>>
    ELSE (IF Head(tpl) = "{title}" THEN t
          ELSE IF Head(tpl) = "{lvid}" THEN id
          ELSE <<Head(tpl)>>) \o format(Tail(tpl), t, id)

\* Path.stem: the name without its last suffix; a name that is only a
\* suffix token (a dot file) has no suffix
stem(name) ==
    IF Len(name) > 1 /\ name[Len(name)] \in SuffixTokens
    THEN SubSeq(name, 1, Len(name) - 1)
    ELSE name

\* line 66: output_path.parent / (output_path.stem + ".jsonl")
comment_path(path) == stem(path) \o <<".jsonl">>

\* Python's all() and any() over a list of booleans.
RECURSIVE all(_)
all(s) == IF s = <<>> THEN TRUE ELSE Head(s) /\ all(Tail(s))

RECURSIVE any(_)
any(s) == IF s = <<>> THEN FALSE ELSE Head(s) \/ any(Tail(s))

IsTrialWatchState(e) == e.type = "trialWatchState"

enabledOf(s) == [i \in 1..Len(s) |-> s[i].enabled]

\* aggregate with the filter of line 119 dropped
aggregate_NoFilter(data) ==
    IF all(enabledOf(data)) THEN "all"
    ELSE IF ~any(enabledOf(data)) THEN "no"
    ELSE "partial"

\* lines 119-126 on the decoded events['data']
aggregate(data) ==
    LET trialWatchStates == SelectSeq(data, IsTrialWatchState)
    IN  IF all(enabledOf(trialWatchStates)) THEN "all"
        ELSE IF ~any(enabledOf(trialWatchStates)) THEN "no"
        ELSE "partial"

\* get_tiralWatch_info(lvid) against the response resp
get_tiralWatch_info(id, resp) ==
    LET get == <<[url |-> "events", key |-> id]>>
    IN  IF ~resp.ok
        THEN [exc |-> "HTTPError", availability |-> "unset", fetches |-> get]
        ELSE [exc |-> "none", availability |-> aggregate(resp.data), fetches |-> get]

CheckResult(e, reason, f, info, w) ==
    [exc |-> e, reason |-> reason, fetches |-> f, trialInfo |-> info, warned |-> w]

\* the verdict of lines 101-107 with 'partial' refused like 'no'
trialVerdict_PartialFatal(t) ==
    IF t.exc # "none"
    THEN CheckResult(t.exc, NoValue, t.fetches, "unset", FALSE)
    ELSE IF t.availability \in {"no", "partial"}
    THEN CheckResult("LiveUnavailableException", "payment needed",
                     t.fetches, t.availability, FALSE)
    ELSE CheckResult("none", NoValue, t.fetches, t.availability, FALSE)

\* the verdict of lines 101-107 once the trial-watch schedule is fetched
trialVerdict(t) ==
    IF t.exc # "none"
    THEN CheckResult(t.exc, NoValue, t.fetches, "unset", FALSE)
    ELSE IF t.availability = "no"
    THEN CheckResult("LiveUnavailableException", "payment needed",
                     t.fetches, t.availability, FALSE)
    ELSE CheckResult("none", NoValue, t.fetches, t.availability,
                     t.availability = "partial")

\* availability_check with the trial-watch schedule fetched before
\* canWatch is looked at
availability_check_TrialFirst(decoded_data, resp) ==
    LET t == IF decoded_data.isTrialWatchTarget = TRUE
             THEN trialVerdict(get_tiralWatch_info(ProgramId, resp))
             ELSE CheckResult("none", NoValue, <<>>, "unset", FALSE)
    IN  IF decoded_data.canWatch = FALSE
        THEN CheckResult("LiveUnavailableException", decoded_data.rejectedReasons,
                         t.fetches, "unset", FALSE)
        ELSE t

\* availability_check with the isTrialWatchTarget test of line 101 dropped
availability_check_AlwaysTrial(decoded_data, resp) ==
    IF decoded_data.canWatch = FALSE
    THEN CheckResult("LiveUnavailableException", decoded_data.rejectedReasons,
                     <<>>, "unset", FALSE)
    ELSE trialVerdict(get_tiralWatch_info(ProgramId, resp))

\* availability_check(decoded_data)
availability_check(decoded_data, resp) ==
    IF decoded_data.canWatch = FALSE
    THEN CheckResult("LiveUnavailableException", decoded_data.rejectedReasons,
                     <<>>, "unset", FALSE)
    ELSE IF decoded_data.isTrialWatchTarget = TRUE
    THEN trialVerdict(get_tiralWatch_info(ProgramId, resp))
    ELSE CheckResult("none", NoValue, <<>>, "unset", FALSE)

\* get_info with the call of line 87 left out
get_info_NoCheck(id, p, resp) ==
    LET get == <<[url |-> "page", key |-> id]>>
    IN  IF p.kind = "httpError"
        THEN CheckResult("HTTPError", NoValue, get, "unset", FALSE)
        ELSE IF p.kind = "noTag"
        THEN CheckResult("SelectException", NoValue, get, "unset", FALSE)
        ELSE CheckResult("none", NoValue, get, "unset", FALSE)

\* get_info(lvid)
get_info(id, p, resp) ==
    LET get == <<[url |-> "page", key |-> id]>>
    IN  IF p.kind = "httpError"
        THEN CheckResult("HTTPError", NoValue, get, "unset", FALSE)
        ELSE IF p.kind = "noTag"
        THEN CheckResult("SelectException", NoValue, get, "unset", FALSE)
        ELSE LET c == availability_check(p, resp)
             IN  [c EXCEPT !.fetches = get \o c.fetches]

\* ------------------------------------------------ NicoLiveWS (section 4.3)
Idle == [status |-> "idle", value |-> NoValue]
Pending == [status |-> "pending", value |-> NoValue]
Resolved(v) == [status |-> "ok", value |-> v]
Failed == [status |-> "SessionClosed", value |-> NoValue]

\* wait_for that forgets a milestone observed before the call
wait_for_NotSticky(conn, v) ==
    IF conn \in {"closed", "cancelled"} THEN Failed ELSE Pending

\* wait_for_room / wait_for_stream called when the session is in state conn
\* and has observed value v for the awaited milestone
wait_for(conn, v) ==
    IF conn \in {"closed", "cancelled"} THEN Failed
    ELSE IF v # NoValue THEN Resolved(v)
    ELSE Pending

\* the first observation of a milestone releases its pending waiter
release(w, v) == IF w.status = "pending" THEN Resolved(v) ELSE w

\* failPending that overlooks the stream waiter
failPending_RoomOnly(ws) ==
    [k \in DOMAIN ws |->
        IF k = "room" /\ ws[k].status = "pending" THEN Failed ELSE ws[k]]

\* a terminated channel fails every pending waiter
failPending(ws) ==
    [k \in DOMAIN ws |-> IF ws[k].status = "pending" THEN Failed ELSE ws[k]]

\* asyncio.run cancels the tasks still running when _download ends
cancelTask(st) == IF st \in {"connecting", "open"} THEN "cancelled" ELSE st

\* ------------------------------------------------------------------ Init
\* the state of a run before _download takes its first step
Fresh ==
    /\ pc = "start"
    /\ exc = "none"
    /\ exc_reason = NoValue
    /\ lvid = <<>>
    /\ fetches = <<>>
    /\ trialInfo = "unset"
    /\ warned = FALSE
    /\ answer = NoValue
    /\ output_path = <<>>
    /\ comment_output_path = <<>>
    /\ arrival = <<>>
    /\ lastStream = NoValue
    /\ room_event = NoValue
    /\ stream_uri = NoValue
    /\ connState = "none"
    /\ roomHandle = NoValue
    /\ streamAddr = NoValue
    /\ waiters = [room |-> Idle, stream |-> Idle]
    /\ wsEvents = 0
    /\ closeCalls = 0
    /\ commentState = "none"
    /\ commentRoom = NoValue
    /\ commentLines = 0
    /\ sinkState = "none"
    /\ sinkInput = NoValue
    /\ sinkRc = -1
    /\ launches = 0

\* download as __main__.main calls it (line 40 of __main__.py): the
\* default output template, any platform responses
Init ==
    /\ lvid_arg \in LvidArgs
    /\ output = DefaultOutput
    /\ save_comments \in BOOLEAN
    /\ path_exists \in BOOLEAN
    /\ page \in PageResponses
    /\ title = <<"title">>
    /\ events_resp \in EventsResponses
    /\ Fresh

\* download called as a library function with any output template, for a
\* program the account may watch in full
ApiInit ==
    /\ lvid_arg \in LvidArgs
    /\ output \in OutputTemplates
    /\ save_comments \in BOOLEAN
    /\ path_exists \in BOOLEAN
    /\ page = [kind |-> "ok", canWatch |-> TRUE, rejectedReasons |-> "[]",
               isTrialWatchTarget |-> FALSE]
    /\ title \in Titles
    /\ events_resp = [ok |-> TRUE, data |-> <<>>]
    /\ Fresh

\* ------------------------------------------------- _download, lines 48-76
lower(ans) == IF ans = "Y" THEN "y" ELSE IF ans = "N" THEN "n" ELSE ans

\* lines 49-55: strip the prefix, resolve the info, test the output path
DL_Begin ==
    /\ pc = "start"
    /\ LET id == IF startswith(lvid_arg, LIVE_URL_PREFIX)
                 THEN SubSeq(lvid_arg, Len(LIVE_URL_PREFIX) + 1, Len(lvid_arg))
                 ELSE lvid_arg
           r == get_info(id, page, events_resp)
       IN  /\ lvid' = id
           /\ fetches' = r.fetches
           /\ trialInfo' = r.trialInfo
           /\ warned' = r.warned
           /\ exc_reason' = r.reason
           /\ exc' = r.exc
           /\ pc' = IF r.exc # "none" THEN "failed"
                    ELSE IF path_exists THEN "prompt" ELSE "create"
           /\ output_path' = IF r.exc # "none" THEN output_path
                             ELSE format(output, title, id)
    /\ UNCHANGED <<argVars, comment_output_path, answer, arrival, lastStream, wsVars, commentVars, sinkVars,
                   room_event, stream_uri>>

\* lines 56-61 with every answer but "n" taken as consent
DL_Prompt_UnlessNo(ans) ==
    /\ pc = "prompt"
    /\ IF lower(ans) = "n" THEN pc' = "done" ELSE pc' = "create"
    /\ answer' = lower(ans)
    /\ UNCHANGED <<argVars, pathVars, arrival, lastStream, infoVars, wsVars, commentVars,
                   sinkVars, exc, room_event, stream_uri>>

\* lines 56-61: one answer to the overwrite prompt
DL_Prompt(ans) ==
    /\ pc = "prompt"
    /\ IF lower(ans) = "y" THEN pc' = "create"
       ELSE IF lower(ans) = "n" THEN pc' = "done"
       ELSE UNCHANGED pc
    /\ answer' = lower(ans)
    /\ UNCHANGED <<argVars, pathVars, arrival, lastStream, infoVars, wsVars, commentVars, sinkVars,
                   exc, room_event, stream_uri>>

\* lines 62-67 with the test of line 65 dropped: the room is always awaited
DL_CreateSession_AlwaysRoom ==
    /\ pc = "create"
    /\ connState' = "connecting"
    /\ comment_output_path' = comment_path(output_path)
    /\ waiters' = [waiters EXCEPT !.room = wait_for("connecting", roomHandle)]
    /\ pc' = "wait_room"
    /\ UNCHANGED <<argVars, output_path, answer, arrival, lastStream, infoVars, commentVars, sinkVars, roomHandle,
                   streamAddr, wsEvents, closeCalls, exc,
                   room_event, stream_uri>>

\* lines 62-67 / 62-71: create the session, schedule connect(), suspend in
\* wait_for_room (save_comments) or in wait_for_stream
DL_CreateSession ==
    /\ pc = "create"
    /\ connState' = "connecting"
    /\ IF save_comments
       THEN /\ comment_output_path' = comment_path(output_path)
            /\ waiters' = [waiters EXCEPT !.room = wait_for("connecting", roomHandle)]
            /\ pc' = "wait_room"
       ELSE /\ UNCHANGED comment_output_path
            /\ waiters' = [waiters EXCEPT !.stream = wait_for("connecting", streamAddr)]
            /\ pc' = "wait_stream"
    /\ UNCHANGED <<argVars, output_path, answer, arrival, lastStream, infoVars, commentVars, sinkVars, roomHandle,
                   streamAddr, wsEvents, closeCalls, exc,
                   room_event, stream_uri>>

\* line 67 without the await: the coroutine object is used as the room
RoomReady_NoAwait == waiters.room.status \in {"ok", "pending"}

\* line 67: await nlws.wait_for_room() has a result
RoomReady == waiters.room.status = "ok"

\* lines 67-71: wait_for_room returned; build the comment socket, schedule
\* its connect(), suspend in wait_for_stream
DL_AfterRoom ==
    /\ pc = "wait_room"
    /\ RoomReady
    /\ room_event' = waiters.room.value
    /\ commentState' = "connecting"
    /\ commentRoom' = waiters.room.value
    /\ waiters' = [waiters EXCEPT !.stream = wait_for(connState, streamAddr)]
    /\ pc' = "wait_stream"
    /\ UNCHANGED <<argVars, pathVars, answer, arrival, lastStream, infoVars, sinkVars, connState, roomHandle,
                   streamAddr, wsEvents, closeCalls, commentLines, exc,
                   stream_uri>>

\* line 67: wait_for_room raised; the exception leaves _download and
\* asyncio.run (line 46) cancels the tasks still running
DL_RoomFailed ==
    /\ pc = "wait_room"
    /\ waiters.room.status = "SessionClosed"
    /\ pc' = "failed"
    /\ exc' = "SessionClosed"
    /\ connState' = cancelTask(connState)
    /\ commentState' = cancelTask(commentState)
    /\ UNCHANGED <<argVars, pathVars, answer, arrival, lastStream, infoVars, sinkVars, roomHandle, streamAddr,
                   waiters, wsEvents, closeCalls, commentRoom, commentLines,
                   room_event, stream_uri>>

\* line 71 without the await
StreamReady_NoAwait == waiters.stream.status \in {"ok", "pending"}

\* line 71: await nlws.wait_for_stream() has a result
StreamReady == waiters.stream.status = "ok"

\* lines 71-74 reached only once the comment task of line 69 is known
\* not to have failed
DL_AfterStream_NeedsComments(mkdirOk, execOk) ==
    /\ pc = "wait_stream"
    /\ StreamReady
    /\ commentState # "failed"
    /\ stream_uri' = waiters.stream.value
    /\ IF ~mkdirOk \/ ~execOk
       THEN /\ pc' = "failed"
            /\ exc' = IF ~mkdirOk THEN "OSError" ELSE "FileNotFoundError"
            /\ connState' = cancelTask(connState)
            /\ commentState' = cancelTask(commentState)
            /\ UNCHANGED sinkVars
       ELSE /\ pc' = "communicate"
            /\ sinkState' = "running"
            /\ sinkInput' = waiters.stream.value
            /\ launches' = launches + 1
            /\ UNCHANGED <<exc, connState, commentState, sinkRc>>
    /\ UNCHANGED <<argVars, pathVars, answer, arrival, lastStream, infoVars, roomHandle, streamAddr, waiters,
                   wsEvents, closeCalls, commentRoom, commentLines,
                   room_event>>

\* lines 71-74: wait_for_stream returned; make the directory and launch
\* ffmpeg; mkdir or the launch may raise
DL_AfterStream(mkdirOk, execOk) ==
    /\ pc = "wait_stream"
    /\ StreamReady
    /\ stream_uri' = waiters.stream.value
    /\ IF ~mkdirOk \/ ~execOk
       THEN /\ pc' = "failed"
            /\ exc' = IF ~mkdirOk THEN "OSError" ELSE "FileNotFoundError"
            /\ connState' = cancelTask(connState)
            /\ commentState' = cancelTask(commentState)
            /\ UNCHANGED sinkVars
       ELSE /\ pc' = "communicate"
            /\ sinkState' = "running"
            /\ sinkInput' = waiters.stream.value
            /\ launches' = launches + 1
            /\ UNCHANGED <<exc, connState, commentState, sinkRc>>
    /\ UNCHANGED <<argVars, pathVars, answer, arrival, lastStream, infoVars, roomHandle, streamAddr, waiters,
                   wsEvents, closeCalls, commentRoom, commentLines,
                   room_event>>

\* line 71 with SessionClosed caught and wait_for_stream awaited again
DL_StreamFailed_Retry ==
    /\ pc = "wait_stream"
    /\ waiters.stream.status = "SessionClosed"
    /\ waiters' = [waiters EXCEPT !.stream = Pending]
    /\ UNCHANGED <<argVars, pathVars, answer, arrival, lastStream, infoVars, sinkVars, commentVars, connState,
                   roomHandle, streamAddr, wsEvents, closeCalls, pc, exc,
                   room_event, stream_uri>>

\* line 71: wait_for_stream raised
DL_StreamFailed ==
    /\ pc = "wait_stream"
    /\ waiters.stream.status = "SessionClosed"
    /\ pc' = "failed"
    /\ exc' = "SessionClosed"
    /\ connState' = cancelTask(connState)
    /\ commentState' = cancelTask(commentState)
    /\ UNCHANGED <<argVars, pathVars, answer, arrival, lastStream, infoVars, sinkVars, roomHandle, streamAddr,
                   waiters, wsEvents, closeCalls, commentRoom, commentLines,
                   room_event, stream_uri>>

\* lines 75-76 with a non-zero return code raised before line 76
DL_Communicate_RaiseFirst ==
    /\ pc = "communicate"
    /\ sinkState = "exited"
    /\ IF sinkRc # 0
       THEN /\ pc' = "failed"
            /\ exc' = "CalledProcessError"
            /\ connState' = cancelTask(connState)
            /\ commentState' = cancelTask(commentState)
            /\ UNCHANGED <<closeCalls, waiters>>
       ELSE /\ closeCalls' = closeCalls + 1
            /\ connState' = "closed"
            /\ waiters' = failPending(waiters)
            /\ pc' = "closing"
            /\ UNCHANGED <<exc, commentState>>
    /\ UNCHANGED <<argVars, pathVars, answer, arrival, lastStream, infoVars, sinkVars, roomHandle, streamAddr,
                   wsEvents, commentRoom, commentLines, room_event,
                   stream_uri>>

\* lines 75-76 without the await of line 75: close() is called while
\* ffmpeg may still run
DL_Communicate_NoWait ==
    /\ pc = "communicate"
    /\ closeCalls' = closeCalls + 1
    /\ connState' = "closed"
    /\ waiters' = failPending(waiters)
    /\ pc' = "closing"
    /\ UNCHANGED <<argVars, pathVars, answer, arrival, lastStream, infoVars, commentVars, sinkVars, roomHandle,
                   streamAddr, wsEvents, exc, room_event, stream_uri>>

\* lines 75-76: communicate() returned (the return code is not read);
\* nlws.close() is called
DL_Communicate ==
    /\ pc = "communicate"
    /\ sinkState = "exited"
    /\ closeCalls' = closeCalls + 1
    /\ connState' = "closed"
    /\ waiters' = failPending(waiters)
    /\ pc' = "closing"
    /\ UNCHANGED <<argVars, pathVars, answer, arrival, lastStream, infoVars, commentVars, sinkVars, roomHandle,
                   streamAddr, wsEvents, exc, room_event, stream_uri>>

\* line 76 completes, _download returns None, asyncio.run (line 46)
\* cancels the comment task
DL_Return ==
    /\ pc = "closing"
    /\ pc' = "done"
    /\ commentState' = cancelTask(commentState)
    /\ UNCHANGED <<argVars, pathVars, answer, arrival, lastStream, infoVars, wsVars, sinkVars, commentRoom,
                   commentLines, exc, room_event, stream_uri>>

\* ------------------------------------------------------------ ffmpeg
SinkExit(rc) ==
    /\ sinkState = "running"
    /\ sinkState' = "exited"
    /\ sinkRc' = rc
    /\ UNCHANGED <<argVars, pathVars, answer, arrival, lastStream, infoVars, wsVars, commentVars, sinkInput,
                   launches, pc, exc, room_event, stream_uri>>

\* ------------------------------------- NicoLiveWS.connect() (section 4.3)
WS_Connected ==
    /\ connState = "connecting"
    /\ connState' = "open"
    /\ UNCHANGED <<argVars, pathVars, answer, arrival, lastStream, infoVars, commentVars, sinkVars, roomHandle,
                   streamAddr, waiters, wsEvents, closeCalls, pc, exc,
                   room_event, stream_uri>>

\* the connect activity fails, or the channel terminates
WS_Terminate ==
    /\ connState \in {"connecting", "open"}
    /\ connState' = "closed"
    /\ waiters' = failPending(waiters)
    /\ UNCHANGED <<argVars, pathVars, answer, arrival, lastStream, infoVars, commentVars, sinkVars, roomHandle,
                   streamAddr, wsEvents, closeCalls, pc, exc,
                   room_event, stream_uri>>

WS_RoomEvent(r) ==
    /\ connState = "open"
    /\ wsEvents < MaxWsEvents
    /\ wsEvents' = wsEvents + 1
    /\ IF roomHandle = NoValue
       THEN /\ roomHandle' = r
            /\ arrival' = Append(arrival, "room")
            /\ waiters' = [waiters EXCEPT !.room = release(@, r)]
       ELSE UNCHANGED <<roomHandle, waiters, arrival>>
    /\ UNCHANGED <<argVars, pathVars, answer, lastStream, infoVars, commentVars, sinkVars, connState,
                   streamAddr, closeCalls, pc, exc, room_event,
                   stream_uri>>

\* a stream event whose address replaces the one observed before
WS_StreamEvent_Overwrite(a) ==
    /\ connState = "open"
    /\ wsEvents < MaxWsEvents
    /\ wsEvents' = wsEvents + 1
    /\ lastStream' = a
    /\ streamAddr' = a
    /\ waiters' = [waiters EXCEPT !.stream = release(@, a)]
    /\ IF streamAddr = NoValue
       THEN arrival' = Append(arrival, "stream")
       ELSE UNCHANGED arrival
    /\ UNCHANGED <<argVars, pathVars, answer, infoVars, commentVars, sinkVars, connState,
                   roomHandle, closeCalls, pc, exc, room_event,
                   stream_uri>>

\* a stream event with address a is received; only the first one is kept
WS_StreamEvent(a) ==
    /\ connState = "open"
    /\ wsEvents < MaxWsEvents
    /\ wsEvents' = wsEvents + 1
    /\ lastStream' = a
    /\ IF streamAddr = NoValue
       THEN /\ streamAddr' = a
            /\ arrival' = Append(arrival, "stream")
            /\ waiters' = [waiters EXCEPT !.stream = release(@, a)]
       ELSE UNCHANGED <<streamAddr, waiters, arrival>>
    /\ UNCHANGED <<argVars, pathVars, answer, infoVars, commentVars, sinkVars, connState,
                   roomHandle, closeCalls, pc, exc, room_event,
                   stream_uri>>

WS_OtherEvent ==
    /\ connState = "open"
    /\ wsEvents < MaxWsEvents
    /\ wsEvents' = wsEvents + 1
    /\ UNCHANGED <<argVars, pathVars, answer, arrival, lastStream, infoVars, commentVars, sinkVars, connState,
                   roomHandle, streamAddr, waiters, closeCalls, pc, exc,
                   room_event, stream_uri>>

\* ------------------------------ NicoLiveCommentWS.connect() (section 4.4)
CWS_Connected ==
    /\ commentState = "connecting"
    /\ commentState' = "open"
    /\ UNCHANGED <<argVars, pathVars, answer, arrival, lastStream, infoVars, wsVars, sinkVars, commentRoom,
                   commentLines, pc, exc, room_event, stream_uri>>

\* the subchannel cannot be opened, or fails later; the task's exception
\* is never retrieved (line 69)
CWS_Fail ==
    /\ commentState \in {"connecting", "open"}
    /\ commentState' = "failed"
    /\ UNCHANGED <<argVars, pathVars, answer, arrival, lastStream, infoVars, wsVars, sinkVars, commentRoom,
                   commentLines, pc, exc, room_event, stream_uri>>

CWS_Comment ==
    /\ commentState = "open"
    /\ commentLines < MaxComments
    /\ commentLines' = commentLines + 1
    /\ UNCHANGED <<argVars, pathVars, answer, arrival, lastStream, infoVars, wsVars, sinkVars, commentState,
                   commentRoom, pc, exc, room_event, stream_uri>>

\* ------------------------------------------------------------- the system
Next ==
    \/ DL_Begin
    \/ \E ans \in Answers : DL_Prompt(ans)
    \/ DL_CreateSession
    \/ DL_AfterRoom
    \/ DL_RoomFailed
    \/ \E mkdirOk \in BOOLEAN, execOk \in BOOLEAN : DL_AfterStream(mkdirOk, execOk)
    \/ DL_StreamFailed
    \/ DL_Communicate
    \/ DL_Return
    \/ \E rc \in ReturnCodes : SinkExit(rc)
    \/ WS_Connected
    \/ WS_Terminate
    \/ \E r \in Rooms : WS_RoomEvent(r)
    \/ \E a \in Addrs : WS_StreamEvent(a)
    \/ WS_OtherEvent
    \/ CWS_Connected
    \/ CWS_Fail
    \/ CWS_Comment

Spec == Init /\ [][Next]_vars

ApiSpec == ApiInit /\ [][Next]_vars

\* The event loop runs every ready step of _download; the transport and
\* ffmpeg are not obliged to do anything.
DL_Step ==
    \/ DL_Begin
    \/ DL_CreateSession
    \/ DL_AfterRoom
    \/ DL_RoomFailed
    \/ \E mkdirOk \in BOOLEAN, execOk \in BOOLEAN : DL_AfterStream(mkdirOk, execOk)
    \/ DL_StreamFailed
    \/ DL_Communicate
    \/ DL_Return

FairSpec == Spec /\ WF_vars(DL_Step)

\* ------------------------------------------- a session and its callers
\* lines 62-63: NicoLiveWS(web_socket_url) and the scheduling of connect()
S_Create ==
    /\ connState = "none"
    /\ connState' = "connecting"
    /\ UNCHANGED <<argVars, pathVars, answer, arrival, lastStream, infoVars, commentVars,
                   sinkVars, roomHandle, streamAddr, waiters, wsEvents,
                   closeCalls, pc, exc, room_event, stream_uri>>

\* a caller awaits wait_for_room()
S_AwaitRoom ==
    /\ connState # "none"
    /\ waiters.room.status # "pending"
    /\ waiters' = [waiters EXCEPT !.room = wait_for(connState, roomHandle)]
    /\ UNCHANGED <<argVars, pathVars, answer, arrival, lastStream, infoVars, commentVars,
                   sinkVars, connState, roomHandle, streamAddr, wsEvents,
                   closeCalls, pc, exc, room_event, stream_uri>>

\* a caller awaits wait_for_stream()
S_AwaitStream ==
    /\ connState # "none"
    /\ waiters.stream.status # "pending"
    /\ waiters' = [waiters EXCEPT !.stream = wait_for(connState, streamAddr)]
    /\ UNCHANGED <<argVars, pathVars, answer, arrival, lastStream, infoVars, commentVars,
                   sinkVars, connState, roomHandle, streamAddr, wsEvents,
                   closeCalls, pc, exc, room_event, stream_uri>>

\* a caller awaits close(), as line 76 does
S_Close ==
    /\ connState # "none"
    /\ closeCalls < MaxCloses
    /\ closeCalls' = closeCalls + 1
    /\ connState' = "closed"
    /\ waiters' = failPending(waiters)
    /\ UNCHANGED <<argVars, pathVars, answer, arrival, lastStream, infoVars, commentVars,
                   sinkVars, roomHandle, streamAddr, wsEvents, pc, exc,
                   room_event, stream_uri>>

SessionInit ==
    /\ lvid_arg = BareId
    /\ output = DefaultOutput
    /\ save_comments = TRUE
    /\ path_exists = FALSE
    /\ page = [kind |-> "ok", canWatch |-> TRUE, rejectedReasons |-> "[]",
               isTrialWatchTarget |-> FALSE]
    /\ title = <<"title">>
    /\ events_resp = [ok |-> TRUE, data |-> <<>>]
    /\ Fresh

SessionNext ==
    \/ S_Create
    \/ S_AwaitRoom
    \/ S_AwaitStream
    \/ S_Close
    \/ WS_Connected
    \/ WS_Terminate
    \/ \E r \in Rooms : WS_RoomEvent(r)
    \/ \E a \in Addrs : WS_StreamEvent(a)
    \/ WS_OtherEvent

SessionSpec == SessionInit /\ [][SessionNext]_vars

TypeOK ==
    /\ pc \in {"start", "prompt", "create", "wait_room", "wait_stream",
               "communicate", "closing", "done", "failed"}
    /\ connState \in {"none", "connecting", "open", "closed", "cancelled"}
    /\ commentState \in {"none", "connecting", "open", "failed", "cancelled"}
    /\ sinkState \in {"none", "running", "exited"}

\* ======================================================== claims C1 - C10
TrialWatchStates(data) ==
    {i \in 1..Len(data) : data[i].type = "trialWatchState"}

NoneEnabled(data) ==
    /\ TrialWatchStates(data) # {}
    /\ \A i \in TrialWatchStates(data) : ~data[i].enabled

InfoResolutionFails ==
    \/ page.kind = "noTag"
    \/ page.kind = "ok" /\ ~page.canWatch
    \/ /\ page.kind = "ok"
       /\ page.isTrialWatchTarget
       /\ events_resp.ok
       /\ NoneEnabled(events_resp.data)

\* C1: when info/availability resolution fails (no metadata block, canWatch
\* false, or a trial-watch target with no access), the run never connects a
\* control channel, never awaits the room or the stream, never starts
\* comment capture and never launches the sink; it fails straight away.
C1_NoSideEffectsOnInfoFailure ==
    InfoResolutionFails =>
        /\ pc \in {"start", "failed"}
        /\ connState = "none"
        /\ waiters.room = Idle /\ waiters.stream = Idle
        /\ commentState = "none"
        /\ sinkState = "none" /\ launches = 0

C1_Witness ==
    /\ pc = "failed"
    /\ exc = "LiveUnavailableException"
    /\ exc_reason = "payment needed"
    /\ connState = "none"

\* C2: comment capture is never started while the session has no room.
C2_CommentAfterRoom ==
    commentState # "none" => (roomHandle # NoValue /\ commentRoom = roomHandle)

C2_Witness ==
    /\ commentState = "open"
    /\ roomHandle # NoValue
    /\ streamAddr # NoValue
    /\ pc = "wait_stream"

\* C3: the sink is never launched while the session has no stream address.
C3_SinkAfterStream ==
    (sinkState # "none" \/ launches > 0) => streamAddr # NoValue

C3_Witness ==
    /\ sinkState = "running"
    /\ streamAddr # NoValue
    /\ roomHandle = NoValue

\* C4: a run that launched the sink has called close() on the session, and
\* the session is closed, by the time the run has ended, whatever the
\* sink's return code.
C4_ClosedAfterSink ==
    (pc \in {"done", "failed"} /\ launches > 0) =>
        (closeCalls > 0 /\ connState = "closed")

C4_Witness ==
    /\ pc = "done"
    /\ sinkState = "exited" /\ sinkRc = 1
    /\ closeCalls = 1 /\ connState = "closed"

\* C5 (as claimed): a run that started the session and then failed has
\* called close() on the session, or found it closed already, before the
\* failure left download.
C5_CloseOnFailure ==
    (pc = "failed" /\ connState # "none") =>
        (closeCalls > 0 \/ connState = "closed")

\* C6 (as claimed): a run whose sink ended with a non-zero return code does
\* not end as a normal return.
C6_SinkFailureSurfaced ==
    (sinkState = "exited" /\ sinkRc # 0) => pc # "done"


\* ------------------------------------------------------------------ C7
\* C7: when the control channel has terminated (or its connect activity
\* failed) with no stream event delivered while _download is suspended in
\* wait_for_room or wait_for_stream, download eventually fails with
\* SessionClosed.
C7_ClosedWaiterFails ==
    (connState = "closed" /\ streamAddr = NoValue
        /\ pc \in {"wait_room", "wait_stream"})
    ~> (pc = "failed" /\ exc = "SessionClosed")

C7_Witness ==
    /\ pc = "failed"
    /\ exc = "SessionClosed"
    /\ connState = "closed"
    /\ streamAddr = NoValue

\* C8: the availability returned for a fetched event list is 'all' exactly
\* when every trialWatchState event is enabled (none included), 'no' exactly
\* when there is a trialWatchState event and none is enabled, and 'partial'
\* exactly when one is enabled and one is disabled; events of other types
\* play no part.
C8_Aggregation ==
    trialInfo # "unset" =>
        LET data == events_resp.data
            T == TrialWatchStates(data)
        IN  /\ trialInfo \in {"all", "no", "partial"}
            /\ trialInfo = "all" <=> \A i \in T : data[i].enabled
            /\ trialInfo = "no" <=> (T # {} /\ \A i \in T : ~data[i].enabled)
            /\ trialInfo = "partial" <=>
                   ((\E i \in T : data[i].enabled) /\ (\E i \in T : ~data[i].enabled))

C8_Witness ==
    /\ trialInfo = "all"
    /\ TrialWatchStates(events_resp.data) # {}
    /\ \E i \in 1..Len(events_resp.data) :
           events_resp.data[i].type = "other" /\ ~events_resp.data[i].enabled

\* C9: with canWatch false the check raises LiveUnavailableException with
\* the platform's rejectedReasons and the trial-watch schedule is never
\* fetched, whatever isTrialWatchTarget and the schedule are.
C9_CanWatchShortCircuit ==
    (pc # "start" /\ page.kind = "ok" /\ ~page.canWatch) =>
        /\ pc = "failed"
        /\ exc = "LiveUnavailableException"
        /\ exc_reason = page.rejectedReasons
        /\ \A i \in 1..Len(fetches) : fetches[i].url # "events"

C9_Witness ==
    /\ pc = "failed"
    /\ ~page.canWatch /\ page.isTrialWatchTarget
    /\ page.rejectedReasons = "[noTimeshiftProgram]"
    /\ exc_reason = "[noTimeshiftProgram]"
    /\ events_resp.ok /\ Len(events_resp.data) > 0

\* C10: with canWatch true and isTrialWatchTarget false the check returns
\* without raising and without a warning, and the trial-watch schedule is
\* never fetched, whatever the schedule holds.
C10_MemberFullAccess ==
    (pc # "start" /\ page.kind = "ok" /\ page.canWatch
        /\ ~page.isTrialWatchTarget) =>
        /\ exc \notin {"LiveUnavailableException", "HTTPError", "SelectException"}
        /\ ~warned
        /\ trialInfo = "unset"
        /\ \A i \in 1..Len(fetches) : fetches[i].url # "events"

C10_Witness ==
    /\ pc = "create"
    /\ page.canWatch /\ ~page.isTrialWatchTarget
    /\ events_resp.ok /\ NoneEnabled(events_resp.data)

\* ====================================================== claims C11 - C20
\* C11: when the output path exists at line 55, a session is created and
\* the sink launched only after the answer y; the answer n ends the run
\* with no session and no sink; after any other answer the run is still at
\* the prompt with nothing started.
C11_NoSilentOverwrite ==
    /\ (path_exists /\ (connState # "none" \/ launches > 0)) => answer = "y"
    /\ answer = "n" =>
           (pc = "done" /\ connState = "none" /\ sinkState = "none"
               /\ launches = 0)
    /\ answer \notin {NoValue, "y", "n"} =>
           (pc = "prompt" /\ connState = "none" /\ sinkState = "none"
               /\ waiters.room = Idle /\ waiters.stream = Idle)

C11_Witness ==
    /\ path_exists
    /\ answer = "y"
    /\ launches = 1
    /\ sinkState = "running"

\* C12 (as claimed): while ffmpeg and the comment socket are both at work,
\* the comment log's path differs from the video's path.
C12_DistinctDestinations ==
    (sinkState = "running" /\ commentState \in {"connecting", "open"}) =>
        comment_output_path # output_path

\* C13: a failure of the comment socket changes nothing of the run's
\* position, exception, session or sink, and a run whose comment socket has
\* failed still launches ffmpeg once the stream address is there (unless
\* mkdir or the launch itself raises).
C13_CommentFailureHarmless ==
    /\ [][(commentState # "failed" /\ commentState' = "failed") =>
              UNCHANGED <<pc, exc, wsVars, sinkVars, stream_uri>>]_vars
    /\ (commentState = "failed" /\ pc = "wait_stream" /\ StreamReady)
           ~> (launches = 1 \/ (pc = "failed" /\ exc \in {"OSError", "FileNotFoundError"}))

C13_Witness ==
    /\ commentState = "failed"
    /\ sinkState = "running"
    /\ launches = 1
    /\ sinkInput = streamAddr

\* C14: a close() that finds the room waiter and the stream waiter pending
\* fails both with SessionClosed; a failed waiter is never resolved again;
\* a further close() changes nothing of the session; once the session is
\* closed every new wait fails with SessionClosed and none is left pending.
C14_CloseFailsWaitersOnce ==
    [][/\ (closeCalls' = closeCalls + 1 /\ waiters.room.status = "pending"
              /\ waiters.stream.status = "pending") =>
              (waiters'.room = Failed /\ waiters'.stream = Failed)
       /\ \A k \in {"room", "stream"} :
              waiters[k] = Failed => waiters'[k] = Failed
       /\ (closeCalls' = closeCalls + 1 /\ closeCalls >= 1) =>
              UNCHANGED <<connState, roomHandle, streamAddr, waiters,
                          arrival, wsEvents>>
       /\ connState = "closed" =>
              /\ connState' = "closed"
              /\ \A k \in {"room", "stream"} :
                     /\ waiters'[k].status # "pending"
                     /\ waiters'[k] # waiters[k] => waiters'[k] = Failed
      ]_vars

C14_Witness ==
    /\ connState = "closed"
    /\ closeCalls = 2
    /\ wsEvents = 0
    /\ waiters.room = Failed
    /\ waiters.stream = Failed

\* C15: every HTTP GET of a run is keyed by an id that holds no URL prefix;
\* the page GET comes first and is keyed by the bare id when the argument
\* is the prefix followed by it, and by the argument itself when the
\* argument has no prefix.
C15_FetchesKeyedByBareId ==
    pc # "start" =>
        /\ Len(fetches) >= 1
        /\ fetches[1].url = "page"
        /\ \A i \in 1..Len(fetches) : \A j \in 1..Len(fetches[i].key) :
               <<fetches[i].key[j]>> # LIVE_URL_PREFIX
        /\ lvid_arg = LIVE_URL_PREFIX \o BareId => fetches[1].key = BareId
        /\ (\A j \in 1..Len(lvid_arg) : <<lvid_arg[j]>> # LIVE_URL_PREFIX) =>
               fetches[1].key = lvid_arg

C15_Witness ==
    /\ lvid_arg = LIVE_URL_PREFIX \o BareId
    /\ Len(fetches) = 2
    /\ fetches[1] = [url |-> "page", key |-> BareId]
    /\ fetches[2] = [url |-> "events", key |-> BareId]

C17_OneLaunchFirstAddress ==
    [][ /\ launches' <= 1
        /\ streamAddr # NoValue => streamAddr' = streamAddr
        /\ (streamAddr = NoValue /\ streamAddr' # NoValue) =>
               streamAddr' = lastStream'
        /\ launches' = 1 => sinkInput' = streamAddr'
        /\ launches = 1 => (launches' = 1 /\ sinkInput' = sinkInput) ]_vars

\* ffmpeg runs on the first address after a stream event with another
\* address was received
C17_Witness ==
    /\ sinkState = "running"
    /\ launches = 1
    /\ streamAddr = "uri1"
    /\ lastStream = "uri2"
    /\ sinkInput = "uri1"

\* a watchable trial-watch target whose schedule was served
TrialTargetServed ==
    /\ page.kind = "ok"
    /\ page.canWatch
    /\ page.isTrialWatchTarget
    /\ events_resp.ok

MixedEnabled(data) ==
    /\ \E i \in TrialWatchStates(data) : data[i].enabled
    /\ \E i \in TrialWatchStates(data) : ~data[i].enabled

\* C18: for a watchable trial-watch target with both an enabled and a
\* disabled trialWatchState event, the check prints the warning, raises
\* nothing, and the run goes on to the overwrite prompt or to the creation
\* of the session (only the answer "n" ends it before the session exists);
\* with at least one trialWatchState event and none enabled, the check
\* raises LiveUnavailableException('payment needed'), prints no warning, and
\* no session is ever created.
C18_PartialWarnsNoneFails ==
    (pc # "start" /\ TrialTargetServed) =>
        /\ MixedEnabled(events_resp.data) =>
               /\ warned
               /\ trialInfo = "partial"
               /\ exc \notin {"LiveUnavailableException", "HTTPError", "SelectException"}
               /\ exc_reason = NoValue
               /\ connState = "none" =>
                      \/ pc \in {"prompt", "create"}
                      \/ pc = "done" /\ answer = "n"
        /\ NoneEnabled(events_resp.data) =>
               /\ pc = "failed"
               /\ exc = "LiveUnavailableException"
               /\ exc_reason = "payment needed"
               /\ ~warned
               /\ connState = "none"

\* the session of a run warned about a partial schedule is open
C18_Witness ==
    /\ TrialTargetServed
    /\ MixedEnabled(events_resp.data)
    /\ warned
    /\ connState = "open"
    /\ sinkState = "running"

\* C19 (as claimed): the control channel is open as long as ffmpeg runs.
C19_ChannelOpenWhileSinkRuns ==
    sinkState = "running" => connState \in {"connecting", "open"}

\* C19 (amended): close() is called on the session only after ffmpeg has
\* exited; while ffmpeg runs _download takes no step, so the only change of
\* the session's state in that time is the channel terminating on its own.
C19_NoCloseWhileSinkRuns ==
    /\ [](closeCalls > 0 => (sinkState = "exited" /\ launches = 1))
    /\ [][sinkState = "running" =>
              /\ closeCalls' = 0
              /\ pc' = pc
              /\ connState' # connState =>
                     (connState \in {"connecting", "open"}
                         /\ connState' \in {"open", "closed"})]_vars

\* close() has been called after ffmpeg exited, in a run without comments
C19_Witness ==
    /\ pc = "closing"
    /\ closeCalls = 1
    /\ sinkState = "exited"
    /\ connState = "closed"
    /\ waiters.stream = Resolved(sinkInput)
    /\ waiters.room = Idle

\* C20: without save_comments _download never awaits the room, never
\* computes a comment path and never builds the comment socket; once the
\* session has observed a stream event the run gets to the launch of
\* ffmpeg (which succeeds, or raises from mkdir or from the launch itself)
\* whether or not a room event was ever observed.
C20_NoRoomWithoutComments ==
    /\ [](~save_comments =>
             /\ pc # "wait_room"
             /\ waiters.room = Idle
             /\ room_event = NoValue
             /\ comment_output_path = <<>>
             /\ commentState = "none" /\ commentRoom = NoValue /\ commentLines = 0
             /\ (streamAddr # NoValue /\ pc = "wait_stream") =>
                    waiters.stream = Resolved(streamAddr))
    /\ (~save_comments /\ streamAddr # NoValue)
           ~> (launches = 1 \/ (pc = "failed" /\ exc \in {"OSError", "FileNotFoundError"}))

\* ffmpeg runs in a run without comments whose session observed a stream
\* event and another message but no room event
C20_Witness ==
    /\ ~save_comments
    /\ arrival = <<"stream">>
    /\ wsEvents = 2
    /\ sinkState = "running"
    /\ sinkInput = streamAddr
    /\ commentState = "none"
====
